---- MODULE Spec2Model ----
(***************************************************************************)
(* A model of the cooking-recipes agent: main (src/agent.py), the Agent    *)
(* orchestrator with its bounded parse retry, the Spoonacular recipe       *)
(* provider (src/recipes.py) and the Markdown formatter                    *)
(* (src/formatters.py).                                                    *)
(*                                                                         *)
(* One request is handled from start to finish by one thread; pc is the    *)
(* position of that thread.  The language model, the HTTP search API and   *)
(* the process environment are inputs, drawn from small sets.              *)
(***************************************************************************)
EXTENDS Integers, Sequences, FiniteSets, TLC

VARIABLES
    pc,           \* position of the handling thread
    lastMessage,  \* role of client.get_last_message(), "none" when it is None
    apiKey,       \* TRUE iff SPOONACULAR_API_KEY is set in the environment
    formatter,    \* the RecipeFormatter the Agent was constructed with
    attempts,     \* the attempts argument of parse_user_message_with_retries
    attempt,      \* the loop variable of its for loop
    lmHist,       \* the outcomes of the client.completion calls, in order
    parsed,       \* the value parse_user_message_with_retries returned
    httpReq,      \* the query parameters of the GET requests, in order
    httpResp,     \* the responses to the GET requests, in order
    recipes,      \* the list fetch_recipes returned
    idx,          \* position of the render loop in recipes (1-based)
    err,          \* the exception raised, once one is propagating or caught
    replies,      \* client.add_reply calls, in order
    logs,         \* client.add_agent_log calls, in order
    inputRequested \* TRUE once client.request_user_input was called

vars == <<pc, lastMessage, apiKey, formatter, attempts, attempt, lmHist, parsed,
          httpReq, httpResp, recipes, idx, err, replies, logs, inputRequested>>

-----------------------------------------------------------------------------
(* Bounds of the model *)

\* the longest result list the search API answers with
MaxResults == 3

\* the largest attempts argument a direct caller passes
MaxAttempts == 5

-----------------------------------------------------------------------------
(* Program constants *)

\* for attempt in range(3)
RangeLimit == 3

\* self.parse_user_message_with_retries(user_message, attempts=3)
RunAttempts == 3

\* max_amount=5
MaxAmount == 5

\* if response.status_code == 200
StatusOK == 200

-----------------------------------------------------------------------------
(* Python values *)

Str(s) == [t |-> "str", v |-> s]
Num(n) == [t |-> "int", v |-> n]
List(q) == [t |-> "list", v |-> q]
Dict(f) == [t |-> "dict", v |-> f]
PyNone == [t |-> "None", v |-> ""]
Unset == [t |-> "unset", v |-> ""]

\* dict.get(key, default)
DictGet(d, key, default) == IF key \in DOMAIN d.v THEN d.v[key] ELSE default

RECURSIVE Join(_, _)
\* sep.join(q)
Join(q, sep) ==
    IF Len(q) = 0 THEN ""
    ELSE IF Len(q) = 1 THEN q[1]
    ELSE q[1] \o sep \o Join(Tail(q), sep)

-----------------------------------------------------------------------------
(* Exceptions *)

NoError == [cls |-> "", msg |-> ""]

Raised(cls, msg) == [cls |-> cls, msg |-> msg]

\* The classes that "except json.decoder.JSONDecodeError" catches: the class
\* itself and requests' JSONDecodeError, which derives from it when requests
\* is built over the standard json module.  Over simplejson it derives from
\* simplejson's error, which the clause does not catch.
IsJSONDecodeError(e) ==
    e.cls \in {"json.decoder.JSONDecodeError", "requests.exceptions.JSONDecodeError"}

-----------------------------------------------------------------------------
(* The language model *)

MalformedCompletions == {"", "Sure! Here are your filters"}

CapabilityCompletion == "{\"message\": \"I suggest recipes to cook at home\"}"
NumericMessageCompletion == "{\"message\": 7}"
FilterCompletion ==
    "{\"query\": \"pasta\", \"include_ingredients\": [\"egg\", \"milk\"], \"exclude_cuisines\": []}"
EmptyObjectCompletion == "{}"
ArrayCompletion == "[]"

ValidCompletions ==
    {CapabilityCompletion, NumericMessageCompletion, FilterCompletion,
     EmptyObjectCompletion, ArrayCompletion}

Completions == MalformedCompletions \cup ValidCompletions

\* What one client.completion call does: it returns a text or it raises.
LMOutcomes ==
    {[raised |-> FALSE, text |-> c] : c \in Completions}
        \cup {[raised |-> TRUE, text |-> ""]}

\* json.loads(completion)
JsonLoads(c) ==
    CASE c = CapabilityCompletion ->
            [ok |-> TRUE,
             value |-> Dict("message" :> Str("I suggest recipes to cook at home"))]
      [] c = NumericMessageCompletion ->
            [ok |-> TRUE, value |-> Dict("message" :> Num(7))]
      [] c = FilterCompletion ->
            [ok |-> TRUE,
             value |-> Dict(("query" :> Str("pasta"))
                            @@ ("include_ingredients" :> List(<<"egg", "milk">>))
                            @@ ("exclude_cuisines" :> List(<<>>)))]
      [] c = EmptyObjectCompletion ->
            [ok |-> TRUE, value |-> Dict(<<>>)]
      [] c = ArrayCompletion ->
            [ok |-> TRUE, value |-> List(<<>>)]
      [] OTHER -> [ok |-> FALSE, value |-> Unset]

-----------------------------------------------------------------------------
(* The search API *)

Egg == [original |-> "1 egg", image |-> "egg.png"]
Milk == [original |-> "2 cups milk", image |-> "milk.png"]
Tomato == [original |-> "3 tomatoes", image |-> "tomato.png"]

RawPasta ==
    [title |-> "Pasta", likes |-> 3, image |-> "pasta.jpg",
     missedIngredients |-> <<Egg>>, usedIngredients |-> <<Milk>>,
     analyzedInstructions |->
        <<[steps |-> <<[step |-> "Boil"], [step |-> "Serve"]>>],
          [steps |-> <<[step |-> "Bake"]>>]>>]

RawSalad ==
    [title |-> "Salad", likes |-> 0, image |-> "salad.jpg",
     missedIngredients |-> <<>>, usedIngredients |-> <<Tomato>>,
     analyzedInstructions |-> <<[steps |-> <<[step |-> "Chop"]>>]>>]

\* a result the API sends with an empty analyzedInstructions list
RawToast ==
    [title |-> "Toast", likes |-> 1, image |-> "toast.jpg",
     missedIngredients |-> <<>>, usedIngredients |-> <<>>,
     analyzedInstructions |-> <<>>]

RawRecipes == {RawPasta, RawSalad, RawToast}

ResultLists == UNION {[1..n -> RawRecipes] : n \in 0..MaxResults}

\* Response bodies: text that is no JSON, or a JSON object that may carry
\* "results" and may carry "message".
TextBody ==
    [isJson |-> FALSE, hasResults |-> FALSE, results |-> <<>>,
     hasMessage |-> FALSE, message |-> ""]
EmptyObjectBody ==
    [isJson |-> TRUE, hasResults |-> FALSE, results |-> <<>>,
     hasMessage |-> FALSE, message |-> ""]
MessageBody ==
    [isJson |-> TRUE, hasResults |-> FALSE, results |-> <<>>,
     hasMessage |-> TRUE, message |-> "quota exceeded"]
ResultsBody(rs) ==
    [isJson |-> TRUE, hasResults |-> TRUE, results |-> rs,
     hasMessage |-> FALSE, message |-> ""]

ErrorStatuses == {401, 500}

Responses ==
    {[status |-> StatusOK, body |-> ResultsBody(rs)] : rs \in ResultLists}
        \cup [status : {StatusOK} \cup ErrorStatuses,
              body : {TextBody, EmptyObjectBody, MessageBody}]

\* The json module requests decodes with: the standard one or simplejson.
JsonLibs == {"json", "simplejson"}

\* response.json()
ResponseJson(resp, lib) ==
    IF resp.body.isJson THEN NoError
    ELSE IF lib = "json"
         THEN Raised("requests.exceptions.JSONDecodeError", "Expecting value")
         ELSE Raised("simplejson.errors.JSONDecodeError", "Expecting value")

\* The parameters fetch_recipes sends.
RequestParams(query, include_cuisines, exclude_cuisines, include_ingredients, exclude_ingredients, max_amount) ==
    [query |-> query,
     cuisine |-> Join(include_cuisines, ","),
     excludeCuisine |-> Join(exclude_cuisines, ","),
     includeIngredients |-> Join(include_ingredients, ","),
     excludeIngredients |-> Join(exclude_ingredients, ","),
     number |-> max_amount]

\* Recipe(...) of one result: the missed ingredients, then the used ones, and
\* the steps of the first instruction group.
Recipe(raw) ==
    LET ings == raw.missedIngredients \o raw.usedIngredients
        steps == raw.analyzedInstructions[1].steps
    IN  [title |-> raw.title, likes |-> raw.likes, image |-> raw.image,
         ingredients |->
            [i \in 1..Len(ings) |->
                [title |-> ings[i].original, image |-> ings[i].image]],
         instructions |-> [i \in 1..Len(steps) |-> [step |-> steps[i].step]]]

\* json_response.get("message", "Unknown error")
ProviderMessage(body) == IF body.hasMessage THEN body.message ELSE "Unknown error"

ApiErrorText(resp) ==
    "Error fetching recipes: " \o ToString(resp.status) \o " "
        \o ProviderMessage(resp.body)

\* What fetch_recipes does with the response: the exception it raises
\* (NoError when it returns) and the list it returns.
FetchResult(resp, lib) ==
    IF ResponseJson(resp, lib) # NoError
    THEN [raised |-> ResponseJson(resp, lib), value |-> <<>>]
    ELSE IF resp.status = StatusOK
    THEN LET rs == IF resp.body.hasResults THEN resp.body.results ELSE <<>>
         IN  IF \E i \in 1..Len(rs) : Len(rs[i].analyzedInstructions) = 0
             THEN [raised |-> Raised("IndexError", "list index out of range"),
                   value |-> <<>>]
             ELSE [raised |-> NoError,
                   value |-> [i \in 1..Len(rs) |-> Recipe(rs[i])]]
    ELSE [raised |-> Raised("Exception", ApiErrorText(resp)), value |-> <<>>]

-----------------------------------------------------------------------------
(* The formatter *)

Formatters == {"MarkdownRecipeFormatter", "RaisingFormatter"}

\* MarkdownRecipeFormatter.transform_to_text
TransformToText(recipe) ==
    LET bulletpoints ==
            [i \in 1..Len(recipe.ingredients) |->
                "| " \o recipe.ingredients[i].title \o " | !["
                    \o recipe.ingredients[i].title \o "]("
                    \o recipe.ingredients[i].image \o ") |"]
        ingredient_table ==
            "\n| Ingredient | Image |\n|------------|-------|\n"
                \o Join(bulletpoints, "\n") \o "\n"
        steps ==
            [i \in 1..Len(recipe.instructions) |->
                ToString(i) \o ". " \o recipe.instructions[i].step]
    IN  "\n### " \o recipe.title \o "\n\nLikes: " \o ToString(recipe.likes)
            \o "\n\n![Recipe Image](" \o recipe.image
            \o ")\n\n##### Ingredients\n" \o ingredient_table
            \o "\n\n##### Steps\n" \o Join(steps, "\n") \o "\n"

-----------------------------------------------------------------------------
(* Replies and log entries *)

PreparingMsg == "Preparing recipes to match your taste"
NoRecipesMsg ==
    "Unfortunately, couldn't find any recipes matching your request. Please consider being more specific next time!"
TryAgainMsg == "Please try again"
WentWrongMsg == "Something went wrong, please be patient until developer fixes it"
ConfigMsg ==
    "Environment configuration isn't complete, please be patient until the developer fixes it"

\* f"Found {len(recipes)} recipes for you"
FoundMsg(n) == "Found " \o ToString(n) \o " recipes for you"

\* The level of an add_agent_log call that passes none: the sink's default,
\* logging.INFO.
DefaultLogLevel == "INFO"

Log(level, text) == [level |-> level, text |-> text]

-----------------------------------------------------------------------------
(* Agent.parse_user_message_with_retries *)

\* the retry test off by one
ShouldRetryOnceMore(a, n) == a < n

\* if attempt < attempts - 1: continue / else: raise error
ShouldRetry(a, n) == a < n - 1

\* One pass of the body of "for attempt in range(3)": an LM invocation, the
\* parse of its completion, and the decision to return, retry or raise.  When
\* the last pass of the range ends in "continue" the loop is over and the
\* function returns None.
ParseAttempt ==
    /\ pc = "parse"
    /\ \E o \in LMOutcomes :
        LET attemptLog ==
                Log("DEBUG", "Attempt #" \o ToString(attempt + 1)
                                \o " to parse user message")
            loaded == JsonLoads(o.text)
        IN  /\ lmHist' = Append(lmHist, o)
            /\ IF o.raised
               THEN /\ logs' = Append(logs, attemptLog)
                    /\ err' = Raised("ConnectionError", "completion failed")
                    /\ pc' = "raised"
                    /\ UNCHANGED <<attempt, parsed>>
               ELSE /\ logs' = logs \o <<attemptLog, Log(DefaultLogLevel, o.text)>>
                    /\ IF loaded.ok
                       THEN /\ parsed' = loaded.value
                            /\ pc' = "parsed"
                            /\ UNCHANGED <<attempt, err>>
                       ELSE IF ShouldRetry(attempt, attempts)
                       THEN IF attempt + 1 < RangeLimit
                            THEN /\ attempt' = attempt + 1
                                 /\ pc' = "parse"
                                 /\ UNCHANGED <<parsed, err>>
                            ELSE /\ parsed' = PyNone
                                 /\ pc' = "parsed"
                                 /\ UNCHANGED <<attempt, err>>
                       ELSE /\ err' = Raised("json.decoder.JSONDecodeError",
                                             "Expecting value")
                            /\ pc' = "raised"
                            /\ UNCHANGED <<attempt, parsed>>
    /\ UNCHANGED <<lastMessage, apiKey, formatter, attempts, httpReq, httpResp,
                   recipes, idx, replies, inputRequested>>

-----------------------------------------------------------------------------
(* Agent.__run *)

\* a type test that no parsed message passes
IsCapabilityMessageBytes(message) == message.t = "bytes"

\* isinstance(message, str)
IsCapabilityMessage(message) == message.t = "str"

\* an emptiness test that never holds
IsEmptyResultNever(rs) == FALSE

\* len(recipes) == 0
IsEmptyResult(rs) == Len(rs) = 0

\* a render loop that steps over every other recipe
NextIndexSkipping(i) == i + 2

\* the step of "for recipe in recipes"
NextIndex(i) == i + 1

\* The branch after the parse: the debug log, then either the capability
\* reply and the return, or the status reply that precedes the fetch.
Branch ==
    /\ pc = "parsed"
    /\ logs' = Append(logs, Log("DEBUG", "Parsed user's preferences"))
    /\ IF parsed.t # "dict"
       THEN /\ err' = Raised("AttributeError", "object has no attribute 'get'")
            /\ pc' = "raised"
            /\ UNCHANGED replies
       ELSE LET message == DictGet(parsed, "message", PyNone)
            IN  IF IsCapabilityMessage(message)
                THEN /\ replies' = Append(replies, message.v)
                     /\ pc' = "done"
                     /\ UNCHANGED err
                ELSE /\ replies' = Append(replies, PreparingMsg)
                     /\ pc' = "fetch"
                     /\ UNCHANGED err
    /\ UNCHANGED <<lastMessage, apiKey, formatter, attempts, attempt, lmHist,
                   parsed, httpReq, httpResp, recipes, idx, inputRequested>>

\* The parameters __run passes to fetch_recipes, absent fields defaulted.
RunRequest ==
    RequestParams(DictGet(parsed, "query", Str("")).v,
                  DictGet(parsed, "include_cuisines", List(<<>>)).v,
                  DictGet(parsed, "exclude_cuisines", List(<<>>)).v,
                  DictGet(parsed, "include_ingredients", List(<<>>)).v,
                  DictGet(parsed, "exclude_ingredients", List(<<>>)).v,
                  MaxAmount)

\* The call of fetch_recipes and what follows it up to the render loop: one
\* GET request, which fails to connect or is answered; the fetched-recipes
\* log; the "no recipes" reply and the return, or the "found" reply.
Fetch ==
    /\ pc = "fetch"
    /\ httpReq' = Append(httpReq, RunRequest)
    /\ \/ /\ err' = Raised("requests.exceptions.ConnectionError", "no response")
          /\ pc' = "raised"
          /\ UNCHANGED <<httpResp, recipes, idx, replies, logs>>
       \/ \E resp \in Responses, lib \in JsonLibs :
            LET r == FetchResult(resp, lib)
            IN  /\ httpResp' = Append(httpResp, resp)
                /\ IF r.raised # NoError
                   THEN /\ err' = r.raised
                        /\ pc' = "raised"
                        /\ UNCHANGED <<recipes, idx, replies, logs>>
                   ELSE /\ recipes' = r.value
                        /\ logs' = Append(logs,
                               Log(DefaultLogLevel,
                                   "Fetched " \o ToString(Len(r.value)) \o " recipes"))
                        /\ UNCHANGED err
                        /\ IF IsEmptyResult(r.value)
                           THEN /\ replies' = Append(replies, NoRecipesMsg)
                                /\ pc' = "done"
                                /\ UNCHANGED idx
                           ELSE /\ replies' = Append(replies, FoundMsg(Len(r.value)))
                                /\ pc' = "render"
                                /\ idx' = 1
    /\ UNCHANGED <<lastMessage, apiKey, formatter, attempts, attempt, lmHist,
                   parsed, inputRequested>>

\* One pass of "for recipe in recipes": the formatter renders the recipe and
\* the text is replied.  The Markdown formatter does not raise; another
\* RecipeFormatter may.
Render ==
    /\ pc = "render"
    /\ idx <= Len(recipes)
    /\ \E fails \in (IF formatter = "MarkdownRecipeFormatter" THEN {FALSE} ELSE BOOLEAN) :
        IF fails
        THEN /\ err' = Raised("RuntimeError", "formatter failed")
             /\ pc' = "raised"
             /\ UNCHANGED <<idx, replies>>
        ELSE /\ replies' = Append(replies, TransformToText(recipes[idx]))
             /\ idx' = NextIndex(idx)
             /\ pc' = IF NextIndex(idx) > Len(recipes) THEN "done" ELSE "render"
             /\ UNCHANGED err
    /\ UNCHANGED <<lastMessage, apiKey, formatter, attempts, attempt, lmHist,
                   parsed, httpReq, httpResp, recipes, logs, inputRequested>>

-----------------------------------------------------------------------------
(* Agent.run *)

\* the reply of the except clause that catches the error
Apology(e) == IF IsJSONDecodeError(e) THEN TryAgainMsg ELSE WentWrongMsg

\* except clauses that log and reply nothing
HandlerRepliesNothing(e) == <<>>

\* what an except clause replies: its one add_reply call
HandlerReplies(e) == <<Apology(e)>>

\* an except clause inside the render loop: the loop goes on after it
HandlerNextPcResume == "render"

\* where the thread is once an except clause has run: run returns
HandlerNextPc == "done"

\* The except clauses of run: the error is logged at error severity and the
\* apology is replied.
HandleError ==
    /\ pc = "raised"
    /\ logs' = Append(logs, Log("ERROR", err.msg))
    /\ replies' = replies \o HandlerReplies(err)
    /\ pc' = HandlerNextPc
    /\ UNCHANGED <<lastMessage, apiKey, formatter, attempts, attempt, lmHist,
                   parsed, httpReq, httpResp, recipes, idx, err, inputRequested>>

-----------------------------------------------------------------------------
(* main *)

Roles == {"none", "user", "assistant"}

\* main up to the call of agent.run: the role check, the credential check,
\* the construction of the provider, the formatter and the agent.
Main ==
    /\ pc = "main"
    /\ IF lastMessage # "user"
       THEN /\ inputRequested' = TRUE
            /\ pc' = "done"
            /\ UNCHANGED <<formatter, attempts, replies, logs>>
       ELSE IF ~apiKey
       THEN /\ logs' = Append(logs,
                Log(DefaultLogLevel, "Env variable SPOONACULAR_API_KEY is missing"))
            /\ replies' = Append(replies, ConfigMsg)
            /\ pc' = "done"
            /\ UNCHANGED <<formatter, attempts, inputRequested>>
       ELSE /\ formatter' = "MarkdownRecipeFormatter"
            /\ attempts' = RunAttempts
            /\ pc' = "parse"
            /\ UNCHANGED <<replies, logs, inputRequested>>
    /\ UNCHANGED <<lastMessage, apiKey, attempt, lmHist, parsed, httpReq,
                   httpResp, recipes, idx, err>>

-----------------------------------------------------------------------------
(* Specifications *)

Fresh ==
    /\ attempt = 0
    /\ lmHist = <<>>
    /\ parsed = Unset
    /\ httpReq = <<>>
    /\ httpResp = <<>>
    /\ recipes = <<>>
    /\ idx = 0
    /\ err = NoError
    /\ replies = <<>>
    /\ logs = <<>>
    /\ inputRequested = FALSE

\* The program: main is run on one message.
Init ==
    /\ pc = "main"
    /\ lastMessage \in Roles
    /\ apiKey \in BOOLEAN
    /\ formatter = ""
    /\ attempts = 0
    /\ Fresh

Next == Main \/ ParseAttempt \/ Branch \/ Fetch \/ Render \/ HandleError

Spec == Init /\ [][Next]_vars

\* Agent.run on a user message, the Agent constructed with the Spoonacular
\* provider and any RecipeFormatter.
InitAgent ==
    /\ pc = "parse"
    /\ lastMessage = "user"
    /\ apiKey = TRUE
    /\ formatter \in Formatters
    /\ attempts = RunAttempts
    /\ Fresh

NextAgent == ParseAttempt \/ Branch \/ Fetch \/ Render \/ HandleError

SpecAgent == InitAgent /\ [][NextAgent]_vars

\* parse_user_message_with_retries called with any attempts >= 1.
InitRetry ==
    /\ pc = "parse"
    /\ lastMessage = "user"
    /\ apiKey = TRUE
    /\ formatter = "MarkdownRecipeFormatter"
    /\ attempts \in 1..MaxAttempts
    /\ Fresh

NextRetry == ParseAttempt

SpecRetry == InitRetry /\ [][NextRetry]_vars

-----------------------------------------------------------------------------
(* Vocabulary of the properties *)

\* the texts of the "found N recipes" reply
FoundMsgs == {FoundMsg(n) : n \in 0..MaxResults}

\* the texts the formatter produces for the results the API can send
RecipeTexts ==
    {TransformToText(Recipe(raw)) :
        raw \in {r \in RawRecipes : Len(r.analyzedInstructions) > 0}}

Apologies == {TryAgainMsg, WentWrongMsg}

\* the positions of the replies that belong to S
Positions(S) == {i \in DOMAIN replies : replies[i] \in S}

IsMalformed(o) == ~o.raised /\ o.text \in MalformedCompletions
IsValid(o) == ~o.raised /\ o.text \in ValidCompletions

\* the recipe source answered and fetch_recipes returned
SourceReturned == Len(httpResp) = 1 /\ err = NoError /\ pc \in {"render", "done"}

-----------------------------------------------------------------------------
(* C1 *)

\* C1: when the parse yields a filter object and the recipe source returns
\* N > 0 recipes, the finished run has exactly one "Found N recipes" reply,
\* no recipe text before it, and after it exactly the N renderings of the
\* returned recipes, in the order of the source's results.
C1_FoundThenEachRecipeInOrder ==
    (pc = "done" /\ SourceReturned /\ Len(recipes) > 0) =>
        LET results == httpResp[1].body.results
            N == Len(results)
            F == Positions(FoundMsgs)
        IN  /\ Cardinality(F) = 1
            /\ \A f \in F :
                /\ replies[f] = FoundMsg(N)
                /\ \A i \in 1..(f - 1) : replies[i] \notin RecipeTexts
                /\ SubSeq(replies, f + 1, Len(replies))
                     = [i \in 1..N |-> TransformToText(Recipe(results[i]))]

C1_Witness ==
    /\ pc = "done"
    /\ SourceReturned
    /\ Len(recipes) = 3
    /\ recipes[1] # recipes[2]
    /\ replies[Len(replies)] = TransformToText(recipes[3])

-----------------------------------------------------------------------------
(* C2 *)

CapabilityParsed ==
    /\ parsed.t = "dict"
    /\ "message" \in DOMAIN parsed.v
    /\ parsed.v["message"].t = "str"

\* C2: when the parsed object carries a string "message", the only reply of
\* the request is that message, and no request is sent to the recipe source.
C2_CapabilityRepliesOnceWithoutFetch ==
    CapabilityParsed =>
        /\ httpReq = <<>>
        /\ httpResp = <<>>
        /\ pc \in {"parsed", "done"}
        /\ pc = "parsed" => replies = <<>>
        /\ pc = "done" => replies = <<parsed.v["message"].v>>

C2_Witness ==
    /\ CapabilityParsed
    /\ pc = "done"
    /\ Len(replies) = 1
    /\ Len(lmHist) = 2

-----------------------------------------------------------------------------
(* C3 *)

\* C3: run by the orchestrator, the parse step makes at most 3 LM
\* invocations; malformed, malformed, valid ends in the parse of the third
\* completion after exactly 3 invocations; three malformed completions end in
\* the JSON parse error after exactly 3 invocations, and no 4th is made.
C3_RetryBoundOfThree ==
    /\ Len(lmHist) <= 3
    /\ Len(lmHist) = 3 => pc # "parse"
    /\ (/\ Len(lmHist) = 3
        /\ IsMalformed(lmHist[1])
        /\ IsMalformed(lmHist[2])
        /\ IsValid(lmHist[3]))
            => /\ parsed.t \in {"dict", "list"}
               /\ parsed = JsonLoads(lmHist[3].text).value
               /\ pc = "parsed" => err = NoError
    /\ (/\ Len(lmHist) = 3
        /\ \A i \in 1..3 : IsMalformed(lmHist[i]))
            => /\ pc \in {"raised", "done"}
               /\ err.cls = "json.decoder.JSONDecodeError"
               /\ parsed.t = "unset"

C3_Witness ==
    /\ Len(lmHist) = 3
    /\ \A i \in 1..3 : IsMalformed(lmHist[i])
    /\ pc = "raised"

-----------------------------------------------------------------------------
(* C4 *)

\* C4 as claimed: every request that reaches Agent.run ends with exactly one
\* reply.
C4_ExactlyOneReply == pc = "done" => Len(replies) = 1

\* C4 as amended: every request that reaches Agent.run ends with at least one
\* reply; a request that failed ends with exactly one apology, which is its
\* last reply, and a request that did not fail has no apology.
C4_NeverSilentOneApology ==
    pc = "done" =>
        /\ Len(replies) >= 1
        /\ err # NoError =>
            /\ Cardinality(Positions(Apologies)) = 1
            /\ replies[Len(replies)] \in Apologies
        /\ err = NoError => Positions(Apologies) = {}

C4_Witness ==
    /\ pc = "done"
    /\ err.cls = "RuntimeError"
    /\ Len(replies) = 4
    /\ replies[1] = PreparingMsg

-----------------------------------------------------------------------------
(* C5 *)

\* C5: when the parse yields a filter object and the recipe source returns
\* zero recipes, the run has exactly one "no recipes found" reply, no recipe
\* text and no "Found N recipes" reply.
C5_EmptyResultRepliesNoRecipes ==
    (SourceReturned /\ recipes = <<>>) =>
        /\ Cardinality(Positions({NoRecipesMsg})) = 1
        /\ Positions(RecipeTexts) = {}
        /\ Positions(FoundMsgs) = {}

C5_Witness ==
    /\ pc = "done"
    /\ SourceReturned
    /\ recipes = <<>>
    /\ httpResp[1].body.hasResults
    /\ replies = <<PreparingMsg, NoRecipesMsg>>

-----------------------------------------------------------------------------
(* C6 *)

\* C6: a user-authored message with the credential absent gets the
\* "configuration incomplete" reply as its only reply and a log entry at error
\* severity, and neither the language model nor the provider is called.
C6_ConfigErrorLoggedAtErrorSeverity ==
    (pc = "done" /\ lastMessage = "user" /\ ~apiKey) =>
        /\ replies = <<ConfigMsg>>
        /\ \E i \in DOMAIN logs : logs[i].level = "ERROR"
        /\ lmHist = <<>>
        /\ httpReq = <<>>

-----------------------------------------------------------------------------
(* C7 *)

\* C7: a non-200 answer makes fetch_recipes fail with the API error that
\* carries the status and the provider's message (or "Unknown error"), after
\* exactly one HTTP call; the request ends with the "Something went wrong"
\* reply, without a "Please try again" reply, and an error-severity log.
C7_Non200IsApiErrorWentWrong ==
    (Len(httpResp) = 1 /\ httpResp[1].status # 200) =>
        /\ Len(httpReq) = 1
        /\ err.cls = "Exception"
        /\ err.msg = "Error fetching recipes: " \o ToString(httpResp[1].status)
                        \o " " \o (IF httpResp[1].body.hasMessage
                                   THEN httpResp[1].body.message
                                   ELSE "Unknown error")
        /\ pc \in {"raised", "done"}
        /\ pc = "done" =>
            /\ replies[Len(replies)] = WentWrongMsg
            /\ Positions({TryAgainMsg}) = {}
            /\ logs[Len(logs)] = Log("ERROR", err.msg)

-----------------------------------------------------------------------------
(* C8 *)

\* C8: once an exception has been raised, the only reply that is still
\* emitted is the apology of the except clause, after which the request is
\* over; a failed request ends with the apology as its last reply.
C8_NoReplyAfterErrorButApology ==
    /\ [][(err' # NoError /\ replies' # replies) =>
            /\ pc = "raised"
            /\ pc' = "done"
            /\ \E a \in Apologies : replies' = Append(replies, a)]_vars
    /\ []((pc = "done" /\ err # NoError) => replies[Len(replies)] \in Apologies)

C8_Witness ==
    /\ pc = "done"
    /\ err.cls = "RuntimeError"
    /\ idx = 2
    /\ Len(recipes) = 3
    /\ replies[Len(replies)] = WentWrongMsg
    /\ replies[Len(replies) - 1] = TransformToText(recipes[1])

-----------------------------------------------------------------------------
(* C9 *)

\* C9: whenever the language model's output was parsed successfully, no
\* "Please try again" reply is emitted.
C9_TryAgainOnlyOnParseExhaustion ==
    parsed.t # "unset" => Positions({TryAgainMsg}) = {}

-----------------------------------------------------------------------------
(* C10 *)

\* C10: for every attempts >= 1, parse_user_message_with_retries makes at
\* most attempts LM invocations; it returns only the JSON parse of the last
\* completion, and raises only the JSON parse error after attempts malformed
\* completions or the error of the invocation that failed.
C10_ReturnsParsedValueOrRaises ==
    /\ Len(lmHist) <= attempts
    /\ pc = "parsed" =>
        /\ IsValid(lmHist[Len(lmHist)])
        /\ parsed.t \in {"dict", "list"}
        /\ parsed = JsonLoads(lmHist[Len(lmHist)].text).value
    /\ pc = "raised" =>
        \/ /\ lmHist[Len(lmHist)].raised
           /\ err.cls = "ConnectionError"
        \/ /\ Len(lmHist) = attempts
           /\ \A i \in DOMAIN lmHist : IsMalformed(lmHist[i])
           /\ err.cls = "json.decoder.JSONDecodeError"

====
